---------------------------- MODULE Spec2Model ----------------------------
(***************************************************************************)
(* Model of the two Flask programs of the repository:                      *)
(*   src/Part-3.py  low_stock_alerts  (GET  .../alerts/low-stock)          *)
(*   src/Part-1.py  create_product    (POST /api/products)                 *)
(* The tables of Part-3.py are the capitalised variables (the model class  *)
(* names); the tables of Part-1.py are the lower-case variables (the SQL   *)
(* table names).  The two programs declare different schemas and are       *)
(* modelled as separate state machines, SpecAlerts and SpecCreate.         *)
(***************************************************************************)
EXTENDS Integers, Sequences, FiniteSets, TLC

VARIABLES
    \* ---- src/Part-3.py ----
    Warehouse,          \* rows [id, name, company_id]
    Product,            \* rows [id, name, sku, product_type]
    Inventory,          \* rows [id, product_id, warehouse_id, quantity]
    Supplier,           \* rows [id, name, contact_email]
    ProductSupplier,    \* rows [product_id, supplier_id]
    InventoryMovement,  \* rows [id, product_id, warehouse_id, quantity_change, reason, created_at]
    utcnow,             \* the clock read by datetime.utcnow(), in days
    company_id,         \* path parameter of the last alert request, 0 before any
    response,           \* body of the last alert response
    \* ---- src/Part-1.py ----
    product,            \* committed rows [id, name, sku, price]
    inventory,          \* committed rows [id, product_id, warehouse_id, quantity]
    pc,                 \* per request: position in create_product
    data,               \* per request: the JSON body while the handler runs
    session,            \* per request: rows flushed but not committed
    reply,              \* per request: the response, status 0 while the handler runs
    write_lock          \* request holding the database write transaction, 0 if none

alertVars  == <<Warehouse, Product, Inventory, Supplier, ProductSupplier,
                InventoryMovement, utcnow, company_id, response>>
createVars == <<product, inventory, pc, data, session, reply, write_lock>>
vars       == <<alertVars, createVars>>

(***************************************************************************)
(* Values shared by both programs                                          *)
(***************************************************************************)
\* Python None / SQL NULL / an absent JSON key are the empty tuple; a value v
\* that is present is <<v>>.
None == <<>>
Some(v) == <<v>>
IsNone(x) == x = <<>>
Val(x) == x[1]

(***************************************************************************)
(*                      src/Part-3.py : low_stock_alerts                   *)
(***************************************************************************)

\* ---- bounds of the stored data sets ----
MaxQuantity == 21       \* Inventory.quantity of the varied row ranges over MinQuantity..MaxQuantity
NumSuppliers == 2       \* suppliers 1..NumSuppliers exist
MaxMovements == 2       \* at most this many ledger rows are drawn from the pool

MinQuantity == 0 - 2

\* timedelta(days=30)
WindowDays == 30

\* THRESHOLDS = {"simple": 20, "bundle": 10}
THRESHOLDS == [simple |-> 20, bundle |-> 10]

\* dict.get(key, default): None and strings that are not keys give the default
DictGet(d, key, default) ==
    IF ~IsNone(key) /\ Val(key) \in DOMAIN d THEN d[Val(key)] ELSE default

\* a mutation of threshold: the default taken from the "bundle" entry
threshold_default10(product_type) == DictGet(THRESHOLDS, product_type, 10)

\* threshold = THRESHOLDS.get(product.product_type, 20)
threshold(product_type) == DictGet(THRESHOLDS, product_type, 20)

\* The 4-way inner join filtered by Warehouse.company_id == company_id, as a set
\* of <<inventory, product, warehouse, supplier>> rows.
JoinRows(cid) ==
    { <<i, p, w, s>> \in Inventory \X Product \X Warehouse \X Supplier :
        /\ i.product_id = p.id
        /\ i.warehouse_id = w.id
        /\ \E ps \in ProductSupplier : ps.product_id = p.id /\ ps.supplier_id = s.id
        /\ w.company_id = cid }

\* row a comes before row b in the result list (by inventory id, then supplier id)
RowBefore(a, b) ==
    \/ a[1].id < b[1].id
    \/ a[1].id = b[1].id /\ a[4].id <= b[4].id

RECURSIVE RowsToSeq(_)
RowsToSeq(S) ==
    IF S = {} THEN <<>>
    ELSE LET first == CHOOSE a \in S : \A b \in S : RowBefore(a, b)
         IN  <<first>> \o RowsToSeq(S \ {first})

\* results = db.session.query(...).join(...).filter(...).all()
results(cid) == RowsToSeq(JoinRows(cid))

RECURSIVE SumChange(_)
SumChange(S) ==
    IF S = {} THEN 0
    ELSE LET m == CHOOSE x \in S : TRUE
         IN  m.quantity_change + SumChange(S \ {m})

Abs(n) == IF n < 0 THEN 0 - n ELSE n

\* a mutation of SaleRows: the filter on reason is dropped
SaleRows_anyReason(product_id, warehouse_id, thirty_days_ago) ==
    { m \in InventoryMovement :
        /\ m.product_id = product_id
        /\ m.warehouse_id = warehouse_id
        /\ m.created_at >= thirty_days_ago }

\* the rows the sales query aggregates
SaleRows(product_id, warehouse_id, thirty_days_ago) ==
    { m \in InventoryMovement :
        /\ m.product_id = product_id
        /\ m.warehouse_id = warehouse_id
        /\ m.reason = "sale"
        /\ m.created_at >= thirty_days_ago }

\* sales = query(func.abs(func.sum(quantity_change))).filter(...).scalar()
\* SUM over no rows is NULL, and ABS(NULL) is NULL.
sales(product_id, warehouse_id, thirty_days_ago) ==
    LET rows == SaleRows(product_id, warehouse_id, thirty_days_ago)
    IN  IF rows = {} THEN None ELSE Some(Abs(SumChange(rows)))

\* if not sales or sales == 0: continue
NoRecentSales(s) == IsNone(s) \/ Val(s) = 0

\* Python true division a / b, kept exact as a fraction
TrueDiv(a, b) == [num |-> a, den |-> b]

\* an integer divided by a fraction
DivByFrac(n, f) == [num |-> n * f.den, den |-> f.num]

\* int(x): truncation toward zero
IntOf(f) ==
    IF (f.num >= 0) = (f.den > 0)
    THEN Abs(f.num) \div Abs(f.den)
    ELSE 0 - (Abs(f.num) \div Abs(f.den))

\* a mutation of days_until_stockout: whole days of sales, then scaled
days_until_stockout_scaled(quantity, total) == (quantity \div total) * 30

\* avg_daily_sales = sales / 30
\* days_until_stockout = int(inventory.quantity / avg_daily_sales)
\* For 0 <= quantity <= 20 the double-precision result is the exact one: an exact
\* integer quotient needs total to divide 30 * quantity (total <= 600), where the
\* two roundings return it exactly, and any other quotient is at least 1/total
\* away from an integer.
days_until_stockout(quantity, total) ==
    LET avg_daily_sales == TrueDiv(total, 30)
    IN  IntOf(DivByFrac(quantity, avg_daily_sales))

\* a mutation of IsLowStock: strictly below the threshold
IsLowStock_strict(quantity, t) == quantity < t

\* if inventory.quantity <= threshold:
IsLowStock(quantity, t) == quantity <= t

\* One iteration of the for loop: the alerts list after the row is handled.
LoopBody(alerts, row, thirty_days_ago) ==
    LET inv == row[1]
        prod == row[2]
        wh == row[3]
        sup == row[4]
        t == threshold(prod.product_type)
        s == sales(prod.id, wh.id, thirty_days_ago)
    IN  IF NoRecentSales(s) THEN alerts
        ELSE IF IsLowStock(inv.quantity, t)
        THEN Append(alerts,
                [product_id |-> prod.id,
                 product_name |-> prod.name,
                 sku |-> prod.sku,
                 warehouse_id |-> wh.id,
                 warehouse_name |-> wh.name,
                 current_stock |-> inv.quantity,
                 threshold |-> t,
                 days_until_stockout |-> days_until_stockout(inv.quantity, Val(s)),
                 supplier |-> [id |-> sup.id, name |-> sup.name,
                               contact_email |-> sup.contact_email]])
        ELSE alerts

RECURSIVE Loop(_, _, _)
Loop(alerts, rows, thirty_days_ago) ==
    IF rows = <<>> THEN alerts
    ELSE Loop(LoopBody(alerts, Head(rows), thirty_days_ago), Tail(rows), thirty_days_ago)

\* GET /api/companies/<company_id>/alerts/low-stock
low_stock_alerts(cid) ==
    LET thirty_days_ago == utcnow - WindowDays
        alerts == Loop(<<>>, results(cid), thirty_days_ago)
    IN  /\ company_id' = cid
        /\ response' = [status |-> 200, alerts |-> alerts, total_alerts |-> Len(alerts)]
        /\ UNCHANGED <<Warehouse, Product, Inventory, Supplier, ProductSupplier,
                       InventoryMovement, utcnow>>
        /\ UNCHANGED createVars


(***************************************************************************)
(* Stored data sets the alert endpoint is run against                      *)
(***************************************************************************)
CompanyIds == {1, 2, 3}             \* no warehouse belongs to company 3

ProductTypes == {Some("simple"), Some("bundle"), Some("digital"), Some(""), None}

Quantities == MinQuantity..MaxQuantity

\* warehouses 1 and 2 belong to company 1, warehouse 3 to company 2
WarehouseRows ==
    { [id |-> 1, name |-> "north", company_id |-> 1],
      [id |-> 2, name |-> "south", company_id |-> 1],
      [id |-> 3, name |-> "east", company_id |-> 2] }

ProductRows(t) ==
    { [id |-> 1, name |-> "widget", sku |-> "W-1", product_type |-> t],
      [id |-> 2, name |-> "kit", sku |-> "K-2", product_type |-> Some("bundle")] }

InventoryRows(q1, q2) ==
    { [id |-> 1, product_id |-> 1, warehouse_id |-> 1, quantity |-> q1],
      [id |-> 2, product_id |-> 1, warehouse_id |-> 2, quantity |-> q2],
      [id |-> 3, product_id |-> 2, warehouse_id |-> 3, quantity |-> 10] }

SupplierRows ==
    { [id |-> s, name |-> "supplier", contact_email |-> "orders@example.com"] :
        s \in 1..NumSuppliers }

\* product 1 is linked to the suppliers in L, product 2 to supplier 1
ProductSupplierRows(L) ==
    { [product_id |-> 1, supplier_id |-> s] : s \in L }
        \cup { [product_id |-> 2, supplier_id |-> 1] }

Movement(i, p, w, change, why, at) ==
    [id |-> i, product_id |-> p, warehouse_id |-> w, quantity_change |-> change,
     reason |-> why, created_at |-> at]

\* ledger rows present in every data set
BaseMovements(now) ==
    { Movement(8, 2, 3, 0 - 3, "sale", now - 5) }

\* ledger rows a data set may hold
MovementPool(now) ==
    { Movement(1, 1, 1, 0 - 7, "sale", now - 1),
      Movement(2, 1, 1, 0 - 4, "sale", now - WindowDays),
      Movement(3, 1, 1, 0 - 45, "sale", now - 5),
      Movement(4, 1, 1, 50, "restock", now - 2),
      Movement(5, 1, 1, 0, "sale", now - 3),
      Movement(6, 1, 2, 0 - 9, "sale", now - 4),
      Movement(7, 1, 1, 0 - 60, "sale", now - WindowDays - 1) }

NoResponse == [status |-> 0, alerts |-> <<>>, total_alerts |-> 0]

InitAlertVars ==
    /\ utcnow = 2 * WindowDays
    /\ Warehouse = WarehouseRows
    /\ \E t \in ProductTypes : Product = ProductRows(t)
    /\ \E q1 \in Quantities, q2 \in {20, 21} : Inventory = InventoryRows(q1, q2)
    /\ Supplier = SupplierRows
    /\ \E L \in SUBSET (1..NumSuppliers) : ProductSupplier = ProductSupplierRows(L)
    /\ \E M \in SUBSET MovementPool(utcnow) :
          /\ Cardinality(M) <= MaxMovements
          /\ InventoryMovement = BaseMovements(utcnow) \cup M
    /\ company_id = 0
    /\ response = NoResponse

\* the alert program's variables when only create_product runs
IdleAlertVars ==
    /\ utcnow = 2 * WindowDays
    /\ Warehouse = {}
    /\ Product = {}
    /\ Inventory = {}
    /\ Supplier = {}
    /\ ProductSupplier = {}
    /\ InventoryMovement = {}
    /\ company_id = 0
    /\ response = NoResponse

\* the create program's variables when only low_stock_alerts runs
IdleCreateVars ==
    /\ product = {}
    /\ inventory = {}
    /\ pc = <<>>
    /\ data = <<>>
    /\ session = <<>>
    /\ reply = <<>>
    /\ write_lock = 0

InitAlerts == InitAlertVars /\ IdleCreateVars

NextAlerts == \E cid \in CompanyIds : low_stock_alerts(cid)

SpecAlerts == InitAlerts /\ [][NextAlerts]_vars


(***************************************************************************)
(* Properties of low_stock_alerts, stated on the stored rows and on the    *)
(* response, without the handler's own operators                           *)
(***************************************************************************)
Responded == response.status = 200

AlertIndexes == DOMAIN response.alerts

\* the alerts of the response for one (product, warehouse) pair
AlertsFor(p, w) ==
    { k \in AlertIndexes :
        response.alerts[k].product_id = p /\ response.alerts[k].warehouse_id = w }

\* the inventory rows the request is about: those of the company's warehouses
CompanyTuples ==
    { i \in Inventory :
        /\ \E p \in Product : p.id = i.product_id
        /\ \E w \in Warehouse : w.id = i.warehouse_id /\ w.company_id = company_id }

TypeOf(p) == (CHOOSE r \in Product : r.id = p).product_type

QuantityOf(p, w) ==
    (CHOOSE i \in Inventory : i.product_id = p /\ i.warehouse_id = w).quantity

LinkedSuppliers(p) == { ps.supplier_id : ps \in { x \in ProductSupplier : x.product_id = p } }

\* |sum of quantity_change| over the "sale" rows of the pair in the trailing
\* 30 days; 0 when there is none
WindowSaleTotal(p, w) ==
    Abs(SumChange({ m \in InventoryMovement :
                      /\ m.product_id = p /\ m.warehouse_id = w
                      /\ m.reason = "sale"
                      /\ utcnow - m.created_at <= 30 }))

\* the threshold table of the specification
StatedThreshold(t) ==
    CASE t = Some("simple") -> 20
      [] t = Some("bundle") -> 10
      [] OTHER -> 20

\* the tuple is one the specification wants an alert for
Qualifies(i) ==
    /\ WindowSaleTotal(i.product_id, i.warehouse_id) > 0
    /\ i.quantity <= StatedThreshold(TypeOf(i.product_id))

\* the stored quantities are the non-negative ones the data model intends
StockNonNegative == \A i \in Inventory : i.quantity >= 0

\* C1: the response holds at most one alert per (product, warehouse) pair: a
\* qualifying tuple whose product has two or more suppliers yields exactly one
\* alert, never one alert per supplier.
C1_OneAlertPerPair ==
    (Responded /\ StockNonNegative) =>
        /\ \A j, k \in AlertIndexes :
              ( /\ response.alerts[j].product_id = response.alerts[k].product_id
                /\ response.alerts[j].warehouse_id = response.alerts[k].warehouse_id )
              => j = k
        /\ \A i \in CompanyTuples :
              (Qualifies(i) /\ Cardinality(LinkedSuppliers(i.product_id)) >= 2)
              => Cardinality(AlertsFor(i.product_id, i.warehouse_id)) = 1

\* C2: a tuple whose "sale" movements of the trailing 30 days total zero (or that
\* has none) has no alert in the response, whatever its stock and threshold.
C2_NoSalesNoAlert ==
    Responded =>
        \A k \in AlertIndexes :
            WindowSaleTotal(response.alerts[k].product_id,
                            response.alerts[k].warehouse_id) # 0

\* C2 witness: a low-stock, supplier-linked tuple of the company whose sale rows
\* exist but total zero, next to one with no sale row at all, neither alerted.
C2_Witness ==
    /\ Responded
    /\ \E i \in CompanyTuples :
          /\ LinkedSuppliers(i.product_id) # {}
          /\ i.quantity <= StatedThreshold(TypeOf(i.product_id))
          /\ \E m \in InventoryMovement :
                /\ m.product_id = i.product_id /\ m.warehouse_id = i.warehouse_id
                /\ m.reason = "sale" /\ utcnow - m.created_at <= 30
          /\ WindowSaleTotal(i.product_id, i.warehouse_id) = 0
          /\ AlertsFor(i.product_id, i.warehouse_id) = {}
    /\ \E i \in CompanyTuples :
          /\ LinkedSuppliers(i.product_id) # {}
          /\ i.quantity <= StatedThreshold(TypeOf(i.product_id))
          /\ ~ \E m \in InventoryMovement :
                /\ m.product_id = i.product_id /\ m.warehouse_id = i.warehouse_id
                /\ m.reason = "sale"
          /\ AlertsFor(i.product_id, i.warehouse_id) = {}

\* C3: a tuple with current_stock above the threshold of its product type has no
\* alert; every alert reports the stored quantity and has current_stock <=
\* threshold; a tuple that reaches the comparison with current_stock equal to
\* the threshold is alerted.
C3_AboveThresholdNoAlert ==
    Responded =>
        /\ \A i \in CompanyTuples :
              i.quantity > StatedThreshold(TypeOf(i.product_id))
              => AlertsFor(i.product_id, i.warehouse_id) = {}
        /\ \A k \in AlertIndexes :
              LET a == response.alerts[k]
              IN  /\ a.current_stock = QuantityOf(a.product_id, a.warehouse_id)
                  /\ a.current_stock <= a.threshold
                  /\ a.current_stock <= StatedThreshold(TypeOf(a.product_id))
        /\ \A i \in CompanyTuples :
              ( /\ i.quantity = StatedThreshold(TypeOf(i.product_id))
                /\ WindowSaleTotal(i.product_id, i.warehouse_id) > 0
                /\ LinkedSuppliers(i.product_id) # {} )
              => AlertsFor(i.product_id, i.warehouse_id) # {}

\* C3 witness: an alert at the boundary next to an unalerted tuple one unit above
\* its threshold that has recent sales and a supplier.
C3_Witness ==
    /\ Responded
    /\ \E k \in AlertIndexes :
          response.alerts[k].current_stock = response.alerts[k].threshold
    /\ \E i \in CompanyTuples :
          /\ i.quantity = StatedThreshold(TypeOf(i.product_id)) + 1
          /\ WindowSaleTotal(i.product_id, i.warehouse_id) > 0
          /\ LinkedSuppliers(i.product_id) # {}
          /\ AlertsFor(i.product_id, i.warehouse_id) = {}

\* C4: an alert with current_stock >= 0 reports days_until_stockout =
\* floor(30 * current_stock / sales_total), which is 0 for current_stock 0 and
\* never negative.
C4_DaysUntilStockout ==
    Responded =>
        \A k \in AlertIndexes :
            LET a == response.alerts[k]
                total == WindowSaleTotal(a.product_id, a.warehouse_id)
            IN  (a.current_stock >= 0 /\ total > 0) =>
                  /\ a.days_until_stockout = (30 * a.current_stock) \div total
                  /\ a.days_until_stockout >= 0
                  /\ (a.current_stock = 0 => a.days_until_stockout = 0)

\* C4 witness: an alert whose quotient is not whole, so that the floor matters,
\* next to an alert with no stock left.
C4_Witness ==
    /\ Responded
    /\ \E k \in AlertIndexes :
          LET a == response.alerts[k]
              total == WindowSaleTotal(a.product_id, a.warehouse_id)
          IN  /\ a.current_stock > 0
              /\ (30 * a.current_stock) % total # 0
              /\ a.days_until_stockout > 0
    /\ \E k \in AlertIndexes :
          /\ response.alerts[k].current_stock = 0
          /\ response.alerts[k].days_until_stockout = 0

\* C5: every tuple of the company's warehouses is considered, also one whose
\* product has no linked supplier: with recent sales and current_stock <=
\* threshold it is alerted.
C5_NoSupplierStillAlerts ==
    (Responded /\ StockNonNegative) =>
        \A i \in CompanyTuples :
            (Qualifies(i) /\ LinkedSuppliers(i.product_id) = {})
            => AlertsFor(i.product_id, i.warehouse_id) # {}

\* C6: the threshold of an alert is 20 for "simple", 10 for "bundle" and 20 for
\* any other product_type, a missing or empty one included.
C6_Threshold ==
    Responded =>
        \A k \in AlertIndexes :
            LET a == response.alerts[k]
                t == TypeOf(a.product_id)
            IN  /\ t = Some("simple") => a.threshold = 20
                /\ t = Some("bundle") => a.threshold = 10
                /\ t \notin {Some("simple"), Some("bundle")} => a.threshold = 20

\* C6 witness: an alert for a product without a type, reporting 20 for a stock
\* that the "bundle" threshold would not have alerted.
C6_Witness ==
    /\ Responded
    /\ \E k \in AlertIndexes :
          /\ TypeOf(response.alerts[k].product_id) = None
          /\ response.alerts[k].threshold = 20
          /\ response.alerts[k].current_stock > 10


(***************************************************************************)
(*                      src/Part-1.py : create_product                     *)
(***************************************************************************)

NumRequests == 2        \* requests that may be in progress at the same time

Requests == 1..NumRequests

\* A JSON body: each key is absent (None) or present with a value (Some(v)).
\* The value of warehouse_id is itself None for a JSON null.
Bodies ==
    [ name : {None, Some("Widget")},
      sku : {None, Some("A"), Some("B")},
      price : {None, Some("9.99"), Some("abc")},
      warehouse_id : {None, Some(Some(1)), Some(None)},
      initial_quantity : {None, Some(5)} ]

NoBody == [name |-> None, sku |-> None, price |-> None, warehouse_id |-> None,
           initial_quantity |-> None]

\* a mutation of required_fields: warehouse_id is not checked
required_fields_short == <<"name", "sku", "price">>

\* required_fields = ['name', 'sku', 'price', 'warehouse_id']
required_fields == <<"name", "sku", "price", "warehouse_id">>

\* for field in required_fields: if field not in data: return ..., 400
\* the first required field that is absent, None when all are present
RECURSIVE FirstMissing(_, _)
FirstMissing(d, fields) ==
    IF fields = <<>> THEN None
    ELSE IF IsNone(d[Head(fields)]) THEN Some(Head(fields))
    ELSE FirstMissing(d, Tail(fields))

\* a mutation of SkuExists: the uniqueness query is never answered with a row
SkuExists_never(sku) == FALSE

\* Product.query.filter_by(sku=data['sku']).first(): reads the committed rows
SkuExists(sku) == \E p \in product : p.sku = sku

\* Decimal(str(price)): the value in cents, None when the text is no number
\* (decimal.InvalidOperation)
Decimal(text) ==
    CASE text = "9.99" -> Some(999)
      [] OTHER -> None

\* a mutation of UniqueViolation: the sku column carries no unique constraint
UniqueViolation_none(sku) == FALSE

\* sku = db.Column(db.String(50), unique=True, ...): the INSERT of a product
\* whose sku is stored raises IntegrityError
UniqueViolation(sku) == \E p \in product : p.sku = sku

\* the next primary key of a table
NextId(rows) == IF rows = {} THEN 1
                ELSE 1 + (CHOOSE n \in {x.id : x \in rows} : \A x \in rows : x.id <= n)

\* quantity=data.get('initial_quantity', 0)
InitialQuantity(d) ==
    IF IsNone(d.initial_quantity) THEN 0 ELSE Val(d.initial_quantity)

\* a mutation of AfterRollback: the flushed product row stays in the table
AfterRollback_keepFlushed(r) ==
    [product |-> product \cup session[r], inventory |-> inventory]

\* db.session.rollback(): the tables without what the request flushed
AfterRollback(r) == [product |-> product, inventory |-> inventory]

\* the status code and JSON body a request is answered with: text is the
\* "error" or "message" member, product_id is 0 when the body has none
Reply(code, text, product_id) ==
    [status |-> code, text |-> text, product_id |-> product_id]

NoReply == Reply(0, "", 0)

\* return jsonify(...), code: the handler ends and the request body is gone
Respond(r, answer) ==
    /\ reply' = [reply EXCEPT ![r] = answer]
    /\ data' = [data EXCEPT ![r] = NoBody]
    /\ pc' = [pc EXCEPT ![r] = "done"]

\* except Exception as e: db.session.rollback(); return {"error": str(e)}, 500
\* The rollback also ends the write transaction of the request.
ServerError(r, e) ==
    /\ product' = AfterRollback(r).product
    /\ inventory' = AfterRollback(r).inventory
    /\ session' = [session EXCEPT ![r] = {}]
    /\ write_lock' = IF write_lock = r THEN 0 ELSE write_lock
    /\ Respond(r, Reply(500, e, 0))

\* A request arrives: get_json, the required-fields loop, the SKU query and
\* the construction of the Product object, up to db.session.add(product).
\* An exception raised in the try block here finds nothing flushed to roll back.
Begin(r, d) ==
    /\ pc[r] = "idle"
    /\ LET missing == FirstMissing(d, required_fields)
       IN  IF ~IsNone(missing)
           THEN Respond(r, Reply(400, Val(missing) \o " is required", 0))
           ELSE IF IsNone(d.sku)             \* data['sku'] outside the try
           THEN Respond(r, Reply(500, "KeyError", 0))
           ELSE IF SkuExists(Val(d.sku))
           THEN Respond(r, Reply(409, "SKU already exists", 0))
           ELSE IF IsNone(d.name) \/ IsNone(d.price)
           THEN Respond(r, Reply(500, "KeyError", 0))
           ELSE IF IsNone(Decimal(Val(d.price)))
           THEN Respond(r, Reply(500, "InvalidOperation", 0))
           ELSE /\ pc' = [pc EXCEPT ![r] = "flush"]
                /\ data' = [data EXCEPT ![r] = d]
                /\ UNCHANGED reply
    /\ UNCHANGED <<product, inventory, session, write_lock>>
    /\ UNCHANGED alertVars

\* db.session.flush(): the INSERT of the product row.  It needs the write
\* transaction of the database: the step waits while another request holds it.
Flush(r) ==
    /\ pc[r] = "flush"
    /\ write_lock \in {0, r}
    /\ LET d == data[r]
       IN  IF UniqueViolation(Val(d.sku))
           THEN ServerError(r, "UNIQUE constraint failed: product.sku")
           ELSE /\ session' = [session EXCEPT ![r] =
                      { [id |-> NextId(product), name |-> Val(d.name),
                         sku |-> Val(d.sku),
                         price |-> Val(Decimal(Val(d.price)))] }]
                /\ write_lock' = r
                /\ pc' = [pc EXCEPT ![r] = "commit"]
                /\ UNCHANGED <<product, inventory, reply, data>>
    /\ UNCHANGED alertVars

\* db.session.flush() while another request holds the write transaction and
\* the wait for it times out: OperationalError (database is locked)
FlushLocked(r) ==
    /\ pc[r] = "flush"
    /\ write_lock \notin {0, r}
    /\ ServerError(r, "database is locked")
    /\ UNCHANGED alertVars

\* Inventory(...); db.session.add(inventory); db.session.commit()
Commit(r) ==
    /\ pc[r] = "commit"
    /\ LET d == data[r]
       IN  IF IsNone(d.warehouse_id)
           THEN ServerError(r, "KeyError")
           ELSE IF IsNone(Val(d.warehouse_id))            \* nullable=False
           THEN ServerError(r, "NOT NULL constraint failed: inventory.warehouse_id")
           ELSE /\ product' = product \cup session[r]
                /\ inventory' = inventory \cup
                      { [id |-> NextId(inventory),
                         product_id |-> p.id,
                         warehouse_id |-> Val(Val(d.warehouse_id)),
                         quantity |-> InitialQuantity(d)] : p \in session[r] }
                /\ session' = [session EXCEPT ![r] = {}]
                /\ write_lock' = 0
                /\ Respond(r, Reply(201, "Product created successfully",
                                    (CHOOSE p \in session[r] : TRUE).id))
    /\ UNCHANGED alertVars

\* the response is sent; the worker takes the next request
Return(r) ==
    /\ pc[r] = "done"
    /\ pc' = [pc EXCEPT ![r] = "idle"]
    /\ reply' = [reply EXCEPT ![r] = NoReply]
    /\ UNCHANGED <<product, inventory, data, session, write_lock>>
    /\ UNCHANGED alertVars

InitCreateVars ==
    /\ product = {}
    /\ inventory = {}
    /\ pc = [r \in Requests |-> "idle"]
    /\ data = [r \in Requests |-> NoBody]
    /\ session = [r \in Requests |-> {}]
    /\ reply = [r \in Requests |-> NoReply]
    /\ write_lock = 0

InitCreate == InitCreateVars /\ IdleAlertVars

NextCreate ==
    \E r \in Requests :
        \/ \E d \in Bodies : Begin(r, d)
        \/ Flush(r)
        \/ FlushLocked(r)
        \/ Commit(r)
        \/ Return(r)

SpecCreate == InitCreate /\ [][NextCreate]_vars


(***************************************************************************)
(* Properties of create_product                                            *)
(***************************************************************************)
\* the body carries a sku that a stored product has
SkuStored(d) == ~IsNone(d.sku) /\ \E p \in product : p.sku = Val(d.sku)

AnyRequiredAbsent(d) ==
    IsNone(d.name) \/ IsNone(d.sku) \/ IsNone(d.price) \/ IsNone(d.warehouse_id)

TablesUnchanged == product' = product /\ inventory' = inventory

\* the bodies with all four required keys, and those with one or more absent
ValidBodies == { d \in Bodies : ~AnyRequiredAbsent(d) }
InvalidBodies == { d \in Bodies : AnyRequiredAbsent(d) }

\* request r starts in this step
Arrives(r) == pc[r] = "idle" /\ pc'[r] # "idle"

\* request r is answered with the status in this step and nothing is written
RejectedWith(r, code) ==
    /\ reply'[r].status = code
    /\ pc'[r] = "done"
    /\ session' = session
    /\ TablesUnchanged

\* C7 as stated: a request whose sku is the sku of a stored product is answered
\* 409 and leaves the product and inventory tables as they were.  (A step in
\* which a request arrives is answered so, or is the arrival of no such body.)
C7_DuplicateSkuConflict ==
    [][\A r \in Requests :
          Arrives(r) =>
             \/ RejectedWith(r, 409)
             \/ \A d \in Bodies : SkuStored(d) => ~Begin(r, d)]_vars

\* C7 amended: a request that carries all four required fields and whose sku is
\* the sku of a stored product is answered 409, flushes nothing and leaves the
\* product and inventory tables as they were.
C7_DuplicateSkuConflictValidBody ==
    [][\A r \in Requests :
          Arrives(r) =>
             \/ RejectedWith(r, 409)
             \/ \A d \in ValidBodies : SkuStored(d) => ~Begin(r, d)]_vars

\* C7 witness: a request answered 409 while the product it collided with and
\* its inventory row are the only rows stored.
C7_Witness ==
    \E r \in Requests :
        /\ pc[r] = "done"
        /\ reply[r].status = 409
        /\ Cardinality(product) = 1
        /\ Cardinality(inventory) = 1
        /\ session[r] = {}

OneInventoryRowPerProduct ==
    \A p \in product : Cardinality({ i \in inventory : i.product_id = p.id }) = 1

\* a step that writes: one request is answered 201 and exactly its product row
\* and one inventory row for it appear, with quantity 0 when initial_quantity
\* is absent from the body
AtomicCreate ==
    \E r \in Requests :
        /\ pc[r] = "commit"
        /\ reply'[r].status = 201
        /\ \E p \in product' \ product, i \in inventory' \ inventory :
              /\ product' = product \cup {p}
              /\ inventory' = inventory \cup {i}
              /\ i.product_id = p.id
              /\ p.sku = Val(data[r].sku)
              /\ reply'[r].product_id = p.id
              /\ IsNone(data[r].initial_quantity) => i.quantity = 0
              /\ ~IsNone(data[r].initial_quantity) =>
                    i.quantity = Val(data[r].initial_quantity)

\* C8: every stored product has exactly one inventory row, and the two rows are
\* written in one step or not at all: a request that is rejected or that fails
\* after the product insert leaves neither row.
C8_ProductWithOneInventoryRow ==
    /\ []OneInventoryRowPerProduct
    /\ [][TablesUnchanged \/ AtomicCreate]_vars
    /\ [][\A r \in Requests :
            (reply[r].status = 0 /\ reply'[r].status \in {400, 409, 500})
            => TablesUnchanged]_vars

\* C8 witness: a request that failed on the inventory insert, after its product
\* row was flushed, next to a stored product whose only inventory row has the
\* default quantity 0.
C8_Witness ==
    \E r \in Requests :
        /\ pc[r] = "done"
        /\ reply[r] = Reply(500, "NOT NULL constraint failed: inventory.warehouse_id", 0)
        /\ session[r] = {}
        /\ Cardinality(product) = 1
        /\ \E p \in product :
              \E i \in inventory : i.product_id = p.id /\ i.quantity = 0
        /\ \A p \in product :
              Cardinality({ i \in inventory : i.product_id = p.id }) = 1

\* C9: a request with name, sku, price or warehouse_id absent is answered 400
\* and writes nothing: nothing is flushed and the product and inventory tables
\* are the same after it as before.  (A step in which a request arrives is
\* answered so, or is the arrival of no such body.)
C9_MissingFieldRejected ==
    [][\A r \in Requests :
          Arrives(r) =>
             \/ RejectedWith(r, 400)
             \/ \A d \in InvalidBodies : ~Begin(r, d)]_vars

\* C9 witness: a request with only warehouse_id absent answered 400 while a
\* product is stored.
C9_Witness ==
    \E r \in Requests :
        /\ pc[r] = "done"
        /\ reply[r] = Reply(400, "warehouse_id is required", 0)
        /\ session[r] = {}
        /\ product # {}

NoDuplicateSku == \A p, q \in product : p.sku = q.sku => p = q

\* C10: two requests with the same new sku that both passed the SKU query never
\* leave two products with that sku: the one that reaches its insert after the
\* other committed is answered 500, not 409, with nothing of it flushed or
\* stored.
C10_ConcurrentSameSku ==
    /\ []NoDuplicateSku
    /\ [][\A r \in Requests :
            (pc[r] = "flush" /\ pc'[r] # "flush" /\ SkuStored(data[r]))
            => /\ reply'[r].status = 500
               /\ session'[r] = {}
               /\ TablesUnchanged]_vars

\* C10 witness: of two requests in progress at once, one is answered 201 and the
\* other 500 on the unique constraint, and one product is stored.
C10_Witness ==
    \E r1, r2 \in Requests :
        /\ r1 # r2
        /\ pc[r1] = "done" /\ reply[r1].status = 201
        /\ pc[r2] = "done"
        /\ reply[r2] = Reply(500, "UNIQUE constraint failed: product.sku", 0)
        /\ session[r2] = {}
        /\ Cardinality(product) = 1
        /\ Cardinality(inventory) = 1

=============================================================================
